---- MODULE Spec2Model ----
(***************************************************************************)
(* AI-Powered WPT Efficiency Optimizer: the optimization engine            *)
(* (optimization_engine.py), its loss calculators (calculators.py), the    *)
(* data model (data_models.py) and the driver that runs one analysis       *)
(* (main_app.py, _start_analysis).                                         *)
(*                                                                         *)
(* Numbers.  The program computes in IEEE doubles.  The model computes in  *)
(* fixed point and carries the non-finite doubles explicitly:              *)
(*   - a double is a record [c |-> class, v |-> integer]; class "fin" is a *)
(*     finite value v, the others are +inf, -inf, nan and 1e100 ("huge",   *)
(*     the optimizer's starting best value);                               *)
(*   - frequencies are counted in half hertz (80000.5 Hz is 160001);       *)
(*   - powers and price/performance values are counted in microwatts;      *)
(*   - resistances of the coil link are counted in tenths of an ohm,       *)
(*     inductances in microhenry, lengths in millimetres.                  *)
(* Every quotient is truncated to the unit of its result.                  *)
(***************************************************************************)
EXTENDS Integers, Sequences, FiniteSets, TLC

(***************************************************************************)
(* IEEE doubles                                                            *)
(***************************************************************************)
Fin(n) == [c |-> "fin", v |-> n]
Inf    == [c |-> "inf", v |-> 0]
NInf   == [c |-> "ninf", v |-> 0]
NaN    == [c |-> "nan", v |-> 0]
\* 1e100: larger than every finite value of the model, smaller than +inf
Huge   == [c |-> "huge", v |-> 0]

IsFinite(a) == a.c \in {"fin", "huge"}

\* the sign of a double that is not nan: -1, 0 or 1
Sign(a) ==
    CASE a.c = "inf"  -> 1
      [] a.c = "huge" -> 1
      [] a.c = "ninf" -> -1
      [] OTHER        -> IF a.v > 0 THEN 1 ELSE IF a.v < 0 THEN -1 ELSE 0

\* the place of a class on the number line
Rank(a) ==
    CASE a.c = "ninf" -> 0
      [] a.c = "fin"  -> 1
      [] a.c = "huge" -> 2
      [] OTHER        -> 3

\* a < b on doubles: false as soon as one side is nan.  Here and below the
\* operands are bound to their values once, as a call evaluates its arguments
FLess(a, b) ==
    \E x \in {a}, y \in {b} :
        IF x.c = "nan" \/ y.c = "nan" THEN FALSE
        ELSE IF Rank(x) # Rank(y) THEN Rank(x) < Rank(y)
        ELSE x.c = "fin" /\ x.v < y.v

\* a + b on doubles
FAdd(a, b) ==
    CHOOSE sum \in
        { CASE x.c = "nan" \/ y.c = "nan"           -> NaN
            [] x.c = "inf"  /\ y.c = "ninf"         -> NaN
            [] x.c = "ninf" /\ y.c = "inf"          -> NaN
            [] x.c = "inf"  \/ y.c = "inf"          -> Inf
            [] x.c = "ninf" \/ y.c = "ninf"         -> NInf
            [] x.c = "huge" \/ y.c = "huge"         -> Huge
            [] OTHER                                -> Fin(x.v + y.v)
          : x \in {a}, y \in {b} } : TRUE

\* -a on doubles
FNeg(a) ==
    CHOOSE negated \in
        { CASE x.c = "inf"  -> NInf
            [] x.c = "ninf" -> Inf
            [] x.c = "fin"  -> Fin(0 - x.v)
            [] OTHER        -> x
          : x \in {a} } : TRUE

\* a * n for a double a and a finite integer factor n (inf * 0 is nan)
FScale(a, n) ==
    CHOOSE product \in
        { CASE x.c = "nan"                 -> NaN
            [] x.c = "fin"                 -> Fin(x.v * n)
            [] n = 0                       -> NaN
            [] Sign(x) * n > 0             -> IF x.c = "huge" THEN Huge ELSE Inf
            [] OTHER                       -> NInf
          : x \in {a} } : TRUE

\* a / n for a double a and a finite integer divisor n # 0, truncated
FShrink(a, n) ==
    CHOOSE quotient \in
        { IF x.c = "fin" THEN Fin(x.v \div n) ELSE x : x \in {a} } : TRUE

\* num / den on numpy doubles, the quotient counted in 1/unit: a zero divisor
\* gives inf, -inf or nan (with a warning), never an exception
NumpyDivide(num, den, unit) ==
    IF den # 0 THEN Fin((num * unit) \div den)
    ELSE IF num > 0 THEN Inf
    ELSE IF num < 0 THEN NInf
    ELSE NaN

\* min() mistyped as max(): the largest element
RECURSIVE PyMaxFrom(_, _, _)
PyMaxFrom(list, k, best) ==
    IF k > Len(list) THEN best
    ELSE PyMaxFrom(list, k + 1, IF FLess(best, list[k]) THEN list[k] ELSE best)

PyMax(list) == PyMaxFrom(list, 2, list[1])

\* Python's min(list): the first element, replaced by a later one only when
\* the later one compares strictly less
RECURSIVE PyMinFrom(_, _, _)
PyMinFrom(list, k, best) ==
    IF k > Len(list) THEN best
    ELSE PyMinFrom(list, k + 1, IF FLess(list[k], best) THEN list[k] ELSE best)

PyMin(list) == PyMinFrom(list, 2, list[1])

\* the last 0-based position holding value
PyIndexLast(list, value) ==
    CHOOSE i \in 0..(Len(list) - 1) :
        \E v \in {value} :
            /\ list[i + 1] = v
            /\ \A j \in (i + 2)..Len(list) : list[j] # v

\* Python's list.index(value): the first 0-based position holding value
PyIndex(list, value) ==
    CHOOSE i \in 0..(Len(list) - 1) :
        \E v \in {value} :
            /\ list[i + 1] = v
            /\ \A j \in 1..i : list[j] # v

(***************************************************************************)
(* data_models.py                                                          *)
(***************************************************************************)
\* the inner diameter with the winding's width counted on one side only
inner_diameter_radius(c) ==
    c.outer_diameter - (c.turns * (c.wire_diameter + c.wire_spacing))

\* CoilParameters.inner_diameter, mm
inner_diameter(coil) ==
    coil.outer_diameter - (2 * coil.turns * (coil.wire_diameter + coil.wire_spacing))

\* CoilParameters.wire_length: pi * turns * (outer + inner) / 2 is the length
\* in mm (the program divides by 2000 and holds metres); pi is 355/113
wire_length(coil) ==
    (355 * coil.turns * (coil.outer_diameter + inner_diameter(coil))) \div (113 * 2)

(***************************************************************************)
(* calculators.py                                                          *)
(***************************************************************************)
\* ComponentCalculator.calculate_coil_inductance (Wheeler), microhenry; the
\* lengths in inches are held in thousandths of an inch (mm * 10000 / 254)
calculate_coil_inductance(coil) ==
    LET inner_inches == (inner_diameter(coil) * 10000) \div 254
        width_inches == ((coil.wire_spacing * 10000) \div 254
                         + (coil.wire_diameter * 10000) \div 254) * coil.turns
        avg_radius   == (inner_inches + width_inches) \div 2
    IN  ((avg_radius * avg_radius) * (coil.turns * coil.turns))
            \div (1000 * (8 * avg_radius + 11 * width_inches))

\* ComponentCalculator.calculate_coil_resistance: wire length times the
\* resistance per metre (held in milliohm per metre), in tenths of an ohm
calculate_coil_resistance(coil, resistance_per_unit) ==
    (wire_length(coil) * resistance_per_unit) \div 100000

\* MOSFETLossCalculator.calculate_conduction_loss; rdson in milliohm
MOSFET_calculate_conduction_loss(rdson, id_rms) ==
    rdson * 1000 * (id_rms * id_rms)

\* MOSFETLossCalculator.calculate_switching_loss; tr + tf in ns
MOSFET_calculate_switching_loss(tr, tf, vds, ids, frequency) ==
    (vds * ids * (tr + tf) * frequency) \div 4000

\* MOSFETLossCalculator.calculate_gate_loss; qg in nC
MOSFET_calculate_gate_loss(qg, vgs_max, frequency) ==
    (qg * vgs_max * frequency) \div 2000

\* MOSFETLossCalculator.calculate_reverse_recovery_loss; qrr in nC
MOSFET_calculate_reverse_recovery_loss(qrr, vsd, frequency) ==
    (qrr * vsd * frequency) \div 4000

\* MOSFETLossCalculator.calculate_total_loss
MOSFET_calculate_total_loss(mosfet_data, system_params, frequency) ==
    (MOSFET_calculate_conduction_loss(mosfet_data.rdson, system_params.id_rms)
     + MOSFET_calculate_switching_loss(mosfet_data.tr, mosfet_data.tf,
                                       system_params.vds, system_params.ids, frequency)
     + MOSFET_calculate_gate_loss(mosfet_data.qg, mosfet_data.vgs_max, frequency)
     + MOSFET_calculate_reverse_recovery_loss(mosfet_data.qrr, mosfet_data.vsd, frequency))
    * system_params.mosfet_count

\* DiodeLossCalculator.calculate_conduction_loss; rd is a double in microohm,
\* vf in millivolt
Diode_calculate_conduction_loss(rd, vf, id_eff, id_mean) ==
    FAdd(FScale(rd, id_eff * id_eff), Fin(vf * id_mean * 1000))

\* DiodeLossCalculator.calculate_switching_loss; qc in pC
Diode_calculate_switching_loss(qc, vd, frequency) ==
    (qc * vd * frequency) \div 2000000

\* DiodeLossCalculator.calculate_reverse_recovery_loss; qrr in pC
Diode_calculate_reverse_recovery_loss(qrr, vd, frequency) ==
    (qrr * vd * frequency) \div 4000000

\* DiodeLossCalculator.calculate_total_loss (id_mean a numpy scalar)
Diode_calculate_total_loss(diode_data, system_params, frequency) ==
    LET vf  == diode_data.vf
        qrr == 0
        qc  == system_params.vd * diode_data.c_d
        rd  == NumpyDivide(vf * 1000, system_params.id_mean, 1)
    IN  FScale(
          FAdd(FAdd(Diode_calculate_conduction_loss(rd, vf, system_params.id_eff,
                                                    system_params.id_mean),
                    Fin(Diode_calculate_switching_loss(qc, system_params.vd, frequency))),
               Fin(Diode_calculate_reverse_recovery_loss(qrr, system_params.vd, frequency))),
          system_params.diode_count)

\* CoilLossCalculator.calculate_efficiency, a double in 1/10000.
\* 2 * pi * frequency * k is held in krad/s (2 pi = 710/113, k in tenths),
\* its square times the inductances in 1/100 ohm^2
calculate_efficiency(system_params, frequency, tx_inductance, rx_inductance, tx_resistance, rx_resistance) ==
    LET k     == system_params.coupling_coefficient
        req   == system_params.equivalent_resistance
        omega_k == (710 * frequency * k) \div 2260000
        cross == ((omega_k * omega_k) * tx_inductance * rx_inductance) \div 10000
        numerator   == req * cross
        denominator == (rx_resistance + req)
                       * (tx_resistance * (rx_resistance + req) + cross)
    IN  NumpyDivide(numerator, denominator, 10000)

\* CoilLossCalculator.calculate_loss
calculate_loss(system_params, frequency, tx_inductance, rx_inductance, tx_resistance, rx_resistance) ==
    LET efficiency == calculate_efficiency(system_params, frequency, tx_inductance,
                                           rx_inductance, tx_resistance, rx_resistance)
        coil_power == system_params.vds * system_params.i_coil
    IN  FScale(FAdd(Fin(10000), FNeg(efficiency)), coil_power * 100)

(***************************************************************************)
(* optimization_engine.py: OptimizationEngine                              *)
(***************************************************************************)
\* an engine whose best scores start at 0 instead of infinity
EngineInitZeroScores(system_params, mosfet_df, diode_df) ==
    [ system_params    |-> system_params,
      mosfet_df        |-> mosfet_df,
      diode_df         |-> diode_df,
      tx_inductance    |-> calculate_coil_inductance(system_params.tx_coil),
      rx_inductance    |-> calculate_coil_inductance(system_params.rx_coil),
      tx_resistance    |-> calculate_coil_resistance(system_params.tx_coil,
                                                     system_params.r1_unit),
      rx_resistance    |-> calculate_coil_resistance(system_params.rx_coil,
                                                     system_params.r2_unit),
      best_mosfet_idx  |-> 0,
      best_diode_idx   |-> 0,
      best_mosfet_loss |-> Fin(0),
      best_diode_loss  |-> Fin(0),
      best_coil_loss   |-> Inf,
      evaluation_count |-> 0 ]

\* OptimizationEngine.__init__
EngineInit(system_params, mosfet_df, diode_df) ==
    [ system_params    |-> system_params,
      mosfet_df        |-> mosfet_df,
      diode_df         |-> diode_df,
      tx_inductance    |-> calculate_coil_inductance(system_params.tx_coil),
      rx_inductance    |-> calculate_coil_inductance(system_params.rx_coil),
      tx_resistance    |-> calculate_coil_resistance(system_params.tx_coil,
                                                     system_params.r1_unit),
      rx_resistance    |-> calculate_coil_resistance(system_params.rx_coil,
                                                     system_params.r2_unit),
      best_mosfet_idx  |-> 0,
      best_diode_idx   |-> 0,
      best_mosfet_loss |-> Inf,
      best_diode_loss  |-> Inf,
      best_coil_loss   |-> Inf,
      evaluation_count |-> 0 ]

\* the price/performance value of one MOSFET row (the body of the first loop):
\* total loss * 0.5 + 0.5 * (price / 20), the price held in cents
mosfet_price_performance(mosfet_row, system_params, frequency) ==
    LET conduction_loss == MOSFET_calculate_conduction_loss(mosfet_row.rdson,
                                                            system_params.id_rms)
        switching_loss  == MOSFET_calculate_switching_loss(mosfet_row.tr, mosfet_row.tf,
                               system_params.vds, system_params.ids, frequency)
        gate_loss       == MOSFET_calculate_gate_loss(mosfet_row.qg, mosfet_row.vgs_max,
                                                      frequency)
        reverse_recovery_loss ==
            MOSFET_calculate_reverse_recovery_loss(mosfet_row.qrr, mosfet_row.vsd, frequency)
        mosfet_total_loss ==
            (conduction_loss + switching_loss + gate_loss + reverse_recovery_loss)
            * system_params.mosfet_count
    IN  Fin(mosfet_total_loss \div 2 + (mosfet_row.price * 10000) \div 40)

\* rd = vf / id_mean raises ZeroDivisionError when id_mean is a Python number
\* (the parameter column was read as objects) and gives inf or nan when it is
\* a numpy scalar (the column was read as numbers)
diode_division_raises(system_params) ==
    system_params.id_mean = 0 /\ ~system_params.numpy_scalars

\* the price/performance value of one diode row (the body of the second loop)
diode_price_performance(diode_row, system_params, frequency) ==
    LET vf  == diode_row.vf
        qrr == 0
        qc  == system_params.vd * diode_row.c_d
        rd  == NumpyDivide(vf * 1000, system_params.id_mean, 1)
        conduction_loss == Diode_calculate_conduction_loss(rd, vf, system_params.id_eff,
                                                           system_params.id_mean)
        switching_loss  == Diode_calculate_switching_loss(qc, system_params.vd, frequency)
        reverse_recovery_loss ==
            Diode_calculate_reverse_recovery_loss(qrr, system_params.vd, frequency)
        diode_total_loss ==
            FScale(FAdd(FAdd(conduction_loss, Fin(switching_loss)),
                        Fin(reverse_recovery_loss)),
                   system_params.diode_count)
    IN  FAdd(FShrink(diode_total_loss, 2), Fin((diode_row.price * 10000) \div 40))

\* the update made without its comparison, as the coil loss is stored
is_new_best_unguarded(min_loss, best_loss) == TRUE

\* the test that guards each best-so-far update: min_loss < best_loss
is_new_best(min_loss, best_loss) == FLess(min_loss, best_loss)

\* the progress value without its cap of 0.7
progress_value_uncapped(evaluation_count) == 300 + evaluation_count * 4

\* min(0.7, 0.3 + (evaluation_count * 0.4 / 100)), in thousandths
progress_value(evaluation_count) ==
    IF 300 + evaluation_count * 4 < 700 THEN 300 + evaluation_count * 4 ELSE 700

\* one call of a callback: what was emitted, the evaluation_count at the
\* time, and the row position, index or progress value it carries
event(kind, evaluation, arg) == [kind |-> kind, evaluation |-> evaluation, arg |-> arg]

\* the per-row blocks emitted last row first
row_blocks_reversed(kind, evaluation, count) ==
    [k \in 1..count |-> event(kind, evaluation, count + 1 - k)]

\* the blocks a loop over the catalog emits, one per row, in iterrows() order
row_blocks(kind, evaluation, count) ==
    [k \in 1..count |-> event(kind, evaluation, k)]

\* the callbacks one call of objective_function makes, in the order of its
\* statements, up to the statement it reached: the second loop (where the
\* division raises), the min() calls, or the return
callbacks_made(evaluation, mosfet_count, diode_count, reached, notices, progress) ==
    LET upto_diode_loop ==
            <<event("header", evaluation, 0), event("mosfet_analysis", evaluation, 0)>>
            \o row_blocks("mosfet", evaluation, mosfet_count)
            \o <<event("diode_analysis", evaluation, 0)>>
        upto_min ==
            upto_diode_loop \o row_blocks("diode", evaluation, diode_count)
            \o <<event("coil", evaluation, 0)>>
    IN  IF reached = "diode_loop" THEN upto_diode_loop
        ELSE IF reached = "min" THEN upto_min
        ELSE upto_min \o <<event("summary", evaluation, 0)>> \o notices
             \o <<event("progress", evaluation, progress)>>

\* the ">>> NEW BEST" lines of one call
new_best_notices(evaluation, new_mosfet, mosfet_idx, new_diode, diode_idx) ==
    (IF new_mosfet THEN <<event("new_best_mosfet", evaluation, mosfet_idx)>> ELSE <<>>)
    \o (IF new_diode THEN <<event("new_best_diode", evaluation, diode_idx)>> ELSE <<>>)

\* the coil loss kept only when it is below the stored one
best_coil_loss_lowest(coil_loss, best_coil_loss) ==
    IF FLess(coil_loss, best_coil_loss) THEN coil_loss ELSE best_coil_loss

\* self.best_coil_loss = coil_loss: the value stored, whatever was stored
best_coil_loss_stored(coil_loss, best_coil_loss) == coil_loss

\* objective_function returning the stored best scores plus the coil loss
\* in place of this call's minima
objective_function_remembering(self, frequency) ==
    LET counted == [self EXCEPT !.evaluation_count = @ + 1]
        mosfet_losses ==
            [k \in 1..Len(self.mosfet_df) |->
                mosfet_price_performance(self.mosfet_df[k], self.system_params, frequency)]
        diode_losses ==
            [k \in 1..Len(self.diode_df) |->
                diode_price_performance(self.diode_df[k], self.system_params, frequency)]
        coil_loss == calculate_loss(self.system_params, frequency,
                                    self.tx_inductance, self.rx_inductance,
                                    self.tx_resistance, self.rx_resistance)
        made(reached, notices, progress) ==
            callbacks_made(counted.evaluation_count, Len(self.mosfet_df),
                           Len(self.diode_df), reached, notices, progress)
    IN  IF Len(self.diode_df) > 0 /\ diode_division_raises(self.system_params)
        THEN [self |-> counted, raised |-> "ZeroDivisionError",
              total_loss |-> NaN, progress |-> <<>>,
              output |-> made("diode_loop", <<>>, 0)]
        ELSE IF Len(self.mosfet_df) = 0 \/ Len(self.diode_df) = 0
        THEN [self |-> counted, raised |-> "ValueError",
              total_loss |-> NaN, progress |-> <<>>,
              output |-> made("min", <<>>, 0)]
        ELSE
        LET min_mosfet_loss == PyMin(mosfet_losses)
            min_diode_loss  == PyMin(diode_losses)
            new_mosfet == is_new_best(min_mosfet_loss, self.best_mosfet_loss)
            new_diode  == is_new_best(min_diode_loss, self.best_diode_loss)
            stored ==
                [counted EXCEPT
                    !.best_mosfet_loss = IF new_mosfet THEN min_mosfet_loss ELSE @,
                    !.best_mosfet_idx  = IF new_mosfet
                                         THEN PyIndex(mosfet_losses, min_mosfet_loss)
                                         ELSE @,
                    !.best_diode_loss  = IF new_diode THEN min_diode_loss ELSE @,
                    !.best_diode_idx   = IF new_diode
                                         THEN PyIndex(diode_losses, min_diode_loss)
                                         ELSE @,
                    !.best_coil_loss   = best_coil_loss_stored(coil_loss, @)]
        IN  [self |-> stored, raised |-> "",
             total_loss |-> FAdd(FAdd(stored.best_mosfet_loss, stored.best_diode_loss),
                                 coil_loss),
             progress |-> <<progress_value(counted.evaluation_count)>>,
             output |-> made("return",
                             new_best_notices(counted.evaluation_count,
                                              new_mosfet, stored.best_mosfet_idx,
                                              new_diode, stored.best_diode_idx),
                             progress_value(counted.evaluation_count))]

\* OptimizationEngine.objective_function on the engine `self`: the engine
\* after the call, the exception raised ("" when the call returns), the value
\* returned, the value passed to the progress callback and the callbacks made
objective_function(self, frequency) ==
    LET counted == [self EXCEPT !.evaluation_count = @ + 1]
        mosfet_losses ==
            [k \in 1..Len(self.mosfet_df) |->
                mosfet_price_performance(self.mosfet_df[k], self.system_params, frequency)]
        diode_losses ==
            [k \in 1..Len(self.diode_df) |->
                diode_price_performance(self.diode_df[k], self.system_params, frequency)]
        coil_loss == calculate_loss(self.system_params, frequency,
                                    self.tx_inductance, self.rx_inductance,
                                    self.tx_resistance, self.rx_resistance)
        made(reached, notices, progress) ==
            callbacks_made(counted.evaluation_count, Len(self.mosfet_df),
                           Len(self.diode_df), reached, notices, progress)
        failed(name, reached) ==
            [self |-> counted, raised |-> name, total_loss |-> NaN,
             progress |-> <<>>, output |-> made(reached, <<>>, 0)]
    IN  IF Len(self.diode_df) > 0 /\ diode_division_raises(self.system_params)
        THEN failed("ZeroDivisionError", "diode_loop")
        ELSE IF Len(self.mosfet_df) = 0 \/ Len(self.diode_df) = 0
        THEN failed("ValueError", "min")
        ELSE
        LET min_mosfet_loss == PyMin(mosfet_losses)
            min_diode_loss  == PyMin(diode_losses)
            total_loss == FAdd(FAdd(min_mosfet_loss, min_diode_loss), coil_loss)
            new_mosfet == is_new_best(min_mosfet_loss, self.best_mosfet_loss)
            new_diode  == is_new_best(min_diode_loss, self.best_diode_loss)
            stored ==
                [counted EXCEPT
                    !.best_mosfet_loss = IF new_mosfet THEN min_mosfet_loss ELSE @,
                    !.best_mosfet_idx  = IF new_mosfet
                                         THEN PyIndex(mosfet_losses, min_mosfet_loss)
                                         ELSE @,
                    !.best_diode_loss  = IF new_diode THEN min_diode_loss ELSE @,
                    !.best_diode_idx   = IF new_diode
                                         THEN PyIndex(diode_losses, min_diode_loss)
                                         ELSE @,
                    !.best_coil_loss   = best_coil_loss_stored(coil_loss, @)]
        IN  [self |-> stored, raised |-> "", total_loss |-> total_loss,
             progress |-> <<progress_value(counted.evaluation_count)>>,
             output |-> made("return",
                             new_best_notices(counted.evaluation_count,
                                              new_mosfet, stored.best_mosfet_idx,
                                              new_diode, stored.best_diode_idx),
                             progress_value(counted.evaluation_count))]

(***************************************************************************)
(* State                                                                   *)
(***************************************************************************)
VARIABLES
    input_values,      \* input_values.xlsx: readable, parameters, PSO settings
    mosfet_database,   \* mosfet_database.xlsx: readable, rows
    diode_database,    \* diode_database.xlsx: readable, rows
    pc,                \* where _start_analysis stands
    progress_bar,      \* the last value given to _update_progress, thousandths
    output_textbox,    \* the text shown in the results box
    error_reports,     \* the failure texts the handler managed to insert
    optimizer,         \* <<>> or <<the OptimizationEngine>>
    swarm,             \* the state of the running pso() call
    last_call,         \* <<>> or <<frequency, value>> of the last objective call
    optimum,           \* <<>> or <<best_frequency, best_loss>> optimize() returned
    results,           \* <<>> or <<the OptimizationResults>>
    exception,         \* the exception in flight, "" when none
    coil,              \* a CoilParameters object whose properties are read
    measured,          \* what was read from it: turns, inner diameter, length
    detailed_output,   \* the callbacks the most recent objective call made
    evaluated          \* the frequencies of the objective calls that returned

vars == <<input_values, mosfet_database, diode_database, pc, progress_bar,
          output_textbox, error_reports, optimizer, swarm, last_call, optimum,
          results, exception, coil, measured, detailed_output, evaluated>>

(***************************************************************************)
(* The optimizer: pyswarm's pso(func, lb, ub, swarmsize, maxiter, minstep, *)
(* minfunc), a particle swarm over one frequency.  A particle's next       *)
(* position depends on random draws; the model lets it be any sample       *)
(* position inside the bounds.                                             *)
(***************************************************************************)
\* the positions a particle is sampled at: both bounds, the middle and the
\* position one hertz above the middle
SamplePositions(lb, ub) ==
    {lb, lb + (ub - lb) \div 2, lb + (ub - lb) \div 2 + 2, ub}

\* the initial position lb + rand() * (ub - lb) with rand() in [0, 1)
InitialPositions(lb, ub) == {x \in SamplePositions(lb, ub) : lb <= x /\ x < ub}

\* a moved position, clamped to [lb, ub]
MovedPositions(lb, ub) == {x \in SamplePositions(lb, ub) : lb <= x /\ x <= ub}

\* abs(fg - fx) <= minfunc
ObjectiveChangeWithin(fg, fx, minfunc) ==
    /\ fg.c = "fin"
    /\ fx.c = "fin"
    /\ (IF fg.v >= fx.v THEN fg.v - fx.v ELSE fx.v - fg.v) <= minfunc

\* sqrt(sum((g - x)^2)) <= minstep, in one dimension
StepWithin(g, x, minstep) ==
    (IF g >= x THEN g - x ELSE x - g) <= minstep

NoSwarm == [lb |-> 0, ub |-> 0, S |-> 0, maxiter |-> 0, minstep |-> 0, minfunc |-> 0,
            fp |-> <<>>, g |-> <<>>, fg |-> Huge, it |-> 0, i |-> 0, stopped |-> ""]

\* pso's state after its assertions, before the first evaluation
SwarmInit(lb, ub, swarmsize, maxiter, minstep, minfunc) ==
    [lb |-> lb, ub |-> ub, S |-> swarmsize, maxiter |-> maxiter, minstep |-> minstep,
     minfunc |-> minfunc, fp |-> <<>>, g |-> <<>>, fg |-> Huge, it |-> 1, i |-> 1,
     stopped |-> ""]

\* the swarm after particle number Len(fp) + 1 was initialised at x with
\* objective value fx
SwarmAfterInit(sw, x, fx) ==
    LET first  == Len(sw.fp) = 0
        better == FLess(fx, sw.fg)
    IN  [sw EXCEPT !.fp = Append(@, fx),
                   !.g  = IF better \/ first THEN <<x>> ELSE @,
                   !.fg = IF better THEN fx ELSE @]

\* the swarm after particle i moved to x with objective value fx
SwarmAfterMove(sw, x, fx) ==
    LET improved == FLess(fx, sw.fp[sw.i])
        best     == improved /\ FLess(fx, sw.fg)
        stop     == IF ~best THEN ""
                    ELSE IF ObjectiveChangeWithin(sw.fg, fx, sw.minfunc) THEN "minfunc"
                    ELSE IF StepWithin(sw.g[1], x, sw.minstep) THEN "minstep"
                    ELSE ""
        last     == sw.i = sw.S
    IN  [sw EXCEPT !.fp = IF improved THEN [@ EXCEPT ![sw.i] = fx] ELSE @,
                   !.g  = IF best THEN <<x>> ELSE @,
                   !.fg = IF best THEN fx ELSE @,
                   !.i  = IF stop # "" THEN @ ELSE IF last THEN 1 ELSE @ + 1,
                   !.it = IF stop = "" /\ last THEN @ + 1 ELSE @,
                   !.stopped = stop]

\* a / b on numpy doubles, the quotient counted in 1/unit
FDivide(a, b, unit) ==
    CHOOSE quotient \in
        { CASE x.c = "nan" \/ y.c = "nan"  -> NaN
            [] x.c # "fin" /\ y.c # "fin"  -> NaN
            [] y.c # "fin"                 -> Fin(0)
            [] x.c # "fin"                 -> IF Sign(x) * Sign(y) >= 0 THEN Inf ELSE NInf
            [] OTHER                       -> NumpyDivide(x.v, y.v, unit)
          : x \in {a}, y \in {b} } : TRUE

\* OptimizationEngine.get_results; system_efficiency in percent
get_results(self) ==
    LET coil_power == self.system_params.vds * self.system_params.i_coil * 1000000
        system_efficiency ==
            FDivide(FAdd(Fin(coil_power), FNeg(self.best_coil_loss)),
                    FAdd(FAdd(Fin(coil_power), self.best_mosfet_loss),
                         self.best_diode_loss),
                    100)
    IN  [ best_frequency   |-> 0,
          best_loss        |-> Fin(0),
          best_mosfet_name |-> self.mosfet_df[self.best_mosfet_idx + 1].name,
          best_diode_name  |-> self.diode_df[self.best_diode_idx + 1].name,
          mosfet_loss      |-> self.best_mosfet_loss,
          diode_loss       |-> self.best_diode_loss,
          coil_loss        |-> self.best_coil_loss,
          tx_inductance    |-> self.tx_inductance,
          rx_inductance    |-> self.rx_inductance,
          tx_resistance    |-> self.tx_resistance,
          rx_resistance    |-> self.rx_resistance,
          system_efficiency |-> system_efficiency ]

\* int(cell) on a frequency cell: the half hertz is cut off
int_hz(cell) == IF cell >= 0 THEN (cell \div 2) * 2 ELSE 0 - (((0 - cell) \div 2) * 2)

\* minfunc=True, which compares as 1.0
minfunc_argument_true == 1 * 1000000

\* the value optimize() passes as pso's minfunc: False, which compares as 0
minfunc_argument == 0

(***************************************************************************)
(* main_app.py: the attributes WirelessPowerTransmissionApp assigns        *)
(***************************************************************************)
AppAttributes ==
    {"logo_image", "large_test_image", "home_image", "navigation_frame",
     "slider_progressbar_frame", "progress_bar", "results_label", "test_label",
     "output_textbox", "test_textbox", "home_frame"}

\* the textbox the error branches of _start_analysis write to
error_textbox == "results_textbox"

(***************************************************************************)
(* Inputs: the three spreadsheets                                          *)
(***************************************************************************)
MaxIterLong  == 130
MaxIterShort == 2
MaxSwarm     == 2

Coil == [turns |-> 10, wire_diameter |-> 1, wire_spacing |-> 1, outer_diameter |-> 100]

\* a valid operating point; id_mean and the coil data vary below
Parameters ==
    [ coupling_coefficient |-> 3, tx_coil |-> Coil, rx_coil |-> Coil,
      equivalent_resistance |-> 50, mosfet_count |-> 4, diode_count |-> 2,
      id_rms |-> 2, vds |-> 5, ids |-> 10, i_coil |-> 1, id_eff |-> 2, id_mean |-> 1,
      vd |-> 5, r1_unit |-> 50, r2_unit |-> 50, numpy_scalars |-> TRUE ]

\* zero mean current, read as a numpy scalar or as a Python number
ParametersZeroMean(numpy) == [Parameters EXCEPT !.id_mean = 0, !.numpy_scalars = numpy]

\* a shorted load on a lossless receiver coil: the efficiency's divisor is zero
ParametersZeroDivisor == [Parameters EXCEPT !.equivalent_resistance = 0, !.r2_unit = 0]

MosfetSlow == [name |-> "M-slow", price |-> 100, rdson |-> 10, vsd |-> 1, vgs_max |-> 10,
               tr |-> 30, tf |-> 30, qg |-> 40, qrr |-> 20]
MosfetFast == [name |-> "M-fast", price |-> 500, rdson |-> 10, vsd |-> 1, vgs_max |-> 10,
               tr |-> 20, tf |-> 20, qg |-> 40, qrr |-> 20]
DiodeSmall == [name |-> "D-small", price |-> 52, vf |-> 500, c_d |-> 40]
DiodeLarge == [name |-> "D-large", price |-> 50, vf |-> 500, c_d |-> 200]

Settings(lower, upper, swarm_size, max_iter, min_step) ==
    [lower |-> lower, upper |-> upper, swarm_size |-> swarm_size,
     max_iter |-> max_iter, min_step |-> min_step]

\* 80000 Hz to 200000 Hz, one particle, many iterations
SettingsLong  == Settings(160000, 400000, 1, MaxIterLong, 0)
\* 80000.5 Hz to 200000 Hz, a small swarm, stopping on a step of one hertz
SettingsShort == Settings(160001, 400000, MaxSwarm, MaxIterShort, 2)

File(readable, content) == [readable |-> readable, content |-> content]

Workbook(parameters, settings, mosfets, diodes) ==
    [ input_values    |-> File(TRUE, [system_params |-> parameters, pso |-> settings]),
      mosfet_database |-> File(TRUE, mosfets),
      diode_database  |-> File(TRUE, diodes) ]

Workbooks ==
    {Workbook(Parameters, st, ms, ds) :
        st \in {SettingsLong, SettingsShort},
        ms \in {<<MosfetSlow, MosfetFast>>},
        ds \in {<<DiodeLarge, DiodeSmall>>}}
    \cup {Workbook(Parameters, SettingsShort, ms, ds) :
        ms \in {<<MosfetFast>>, <<MosfetFast, MosfetSlow, MosfetSlow>>, <<>>},
        ds \in {<<DiodeLarge>>, <<>>}}
    \cup {Workbook(ps, SettingsShort, <<MosfetSlow, MosfetFast>>, <<DiodeLarge, DiodeSmall>>) :
        ps \in {ParametersZeroMean(TRUE), ParametersZeroMean(FALSE), ParametersZeroDivisor}}
    \cup {Workbook(Parameters, Settings(160001, 160000, 1, MaxIterShort, 1),
                   <<MosfetFast>>, <<DiodeLarge>>),
          Workbook(Parameters, Settings(160000, 400000, MaxSwarm, 0, 2),
                   <<MosfetFast>>, <<DiodeLarge>>)}
    \cup {[Workbook(Parameters, SettingsShort, <<MosfetFast>>, <<DiodeLarge>>)
             EXCEPT !.input_values.readable = FALSE],
          [Workbook(Parameters, SettingsShort, <<MosfetFast>>, <<DiodeLarge>>)
             EXCEPT !.diode_database.readable = FALSE]}

(***************************************************************************)
(* Init: the window is built, the progress bar is at 0, the files are on   *)
(* disk and "Start Analysis" has not been clicked                          *)
(***************************************************************************)
Init ==
    /\ \E w \in Workbooks :
          /\ input_values = w.input_values
          /\ mosfet_database = w.mosfet_database
          /\ diode_database = w.diode_database
    /\ pc = "idle"
    /\ progress_bar = 0
    /\ output_textbox = <<>>
    /\ error_reports = <<>>
    /\ optimizer = <<>>
    /\ swarm = NoSwarm
    /\ last_call = <<>>
    /\ optimum = <<>>
    /\ results = <<>>
    /\ exception = ""
    /\ coil = input_values.content.system_params.tx_coil
    /\ measured = <<>>
    /\ detailed_output = <<>>
    /\ evaluated = {}

\* the coil object read by CoilSpec; a run of the analysis leaves it alone
geometry == <<coil, measured>>

files == <<input_values, mosfet_database, diode_database>>

\* what the objective calls of the run have left to be looked at
observed == <<detailed_output, evaluated>>

(***************************************************************************)
(* _start_analysis, step by step                                           *)
(***************************************************************************)
\* lines 125-131: clear the boxes, progress 0.1
StartAnalysis ==
    /\ pc = "idle"
    /\ output_textbox' = <<"Starting Analysis...">>
    /\ progress_bar' = 100
    /\ pc' = "load"
    /\ detailed_output' = <<>>
    /\ UNCHANGED <<geometry, files, evaluated, error_reports, optimizer, swarm, last_call, optimum,
                   results, exception>>

\* lines 135-149: load the parameters and the catalogs; a loader that failed
\* returned None, and the branch reports it in self.<error_textbox>
LoadData ==
    /\ pc = "load"
    /\ IF input_values.readable /\ mosfet_database.readable /\ diode_database.readable
       THEN /\ progress_bar' = 200
            /\ pc' = "create"
            /\ UNCHANGED <<error_reports, exception>>
       ELSE IF error_textbox \in AppAttributes
       THEN /\ error_reports' = Append(error_reports, "Error: Could not load")
            /\ progress_bar' = 1000
            /\ pc' = "failed"
            /\ UNCHANGED exception
       ELSE /\ exception' = "AttributeError"
            /\ pc' = "except"
            /\ UNCHANGED <<progress_bar, error_reports>>
    /\ UNCHANGED <<geometry, files, observed, output_textbox, optimizer, swarm, last_call, optimum, results>>

\* lines 152-158: OptimizationEngine(...)
CreateEngine ==
    /\ pc = "create"
    /\ optimizer' = <<EngineInit(input_values.content.system_params,
                                 mosfet_database.content, diode_database.content)>>
    /\ pc' = "optimize"
    /\ UNCHANGED <<geometry, files, observed, progress_bar, output_textbox, error_reports, swarm,
                   last_call, optimum, results, exception>>

\* optimize(), lines 171-192, up to pso's assertion that ub > lb
Optimize ==
    /\ pc = "optimize"
    /\ LET df == input_values.content.pso
           lower_bounds   == int_hz(df.lower)
           upper_bounds   == int_hz(df.upper)
           pso_swarm_size == df.swarm_size
           pso_max_iter   == df.max_iter
           pso_min_step   == df.min_step
       IN  IF upper_bounds > lower_bounds
           THEN /\ swarm' = SwarmInit(lower_bounds, upper_bounds, pso_swarm_size,
                                      pso_max_iter, pso_min_step, minfunc_argument)
                /\ pc' = "pso_init"
                /\ UNCHANGED exception
           ELSE /\ exception' = "AssertionError"
                /\ pc' = "except"
                /\ UNCHANGED swarm
    /\ UNCHANGED <<geometry, files, observed, progress_bar, output_textbox, error_reports, optimizer,
                   last_call, optimum, results>>

AfterInitPc(sw) == IF Len(sw.fp) = sw.S THEN "pso_iterate" ELSE "pso_init"
AfterMovePc(sw) == IF sw.stopped # "" THEN "pso_return" ELSE "pso_iterate"

\* one call of objective_function(x) made by pso, for a particle that is
\* being initialised or has moved, and what the call leaves behind
Evaluate(x, moved) ==
    \E call \in {objective_function(optimizer[1], x)} :
        /\ optimizer' = <<call.self>>
        /\ detailed_output' = call.output
        /\ IF call.raised = ""
           THEN /\ evaluated' = evaluated \cup {x}
                /\ swarm' = IF moved THEN SwarmAfterMove(swarm, x, call.total_loss)
                                      ELSE SwarmAfterInit(swarm, x, call.total_loss)
                /\ progress_bar' = call.progress[1]
                /\ last_call' = <<x, call.total_loss>>
                /\ pc' = IF moved THEN AfterMovePc(swarm') ELSE AfterInitPc(swarm')
                /\ UNCHANGED exception
           ELSE /\ exception' = call.raised
                /\ pc' = "except"
                /\ UNCHANGED <<swarm, progress_bar, last_call, evaluated>>
        /\ UNCHANGED <<geometry, files, output_textbox, error_reports, optimum, results>>

\* pso: the next particle is given its initial position and evaluated
PsoInitialise ==
    /\ pc = "pso_init"
    /\ \E x \in InitialPositions(swarm.lb, swarm.ub) :
          Evaluate(x, FALSE)

\* pso: particle i of iteration it moves and is evaluated
PsoIterate ==
    /\ pc = "pso_iterate"
    /\ swarm.it <= swarm.maxiter
    /\ \E x \in MovedPositions(swarm.lb, swarm.ub) :
          Evaluate(x, TRUE)

\* pso: the iteration count is used up
PsoMaxIter ==
    /\ pc = "pso_iterate"
    /\ swarm.it > swarm.maxiter
    /\ swarm' = [swarm EXCEPT !.stopped = "maxiter"]
    /\ pc' = "pso_return"
    /\ UNCHANGED <<geometry, files, observed, progress_bar, output_textbox, error_reports, optimizer,
                   last_call, optimum, results, exception>>

\* optimize() lines 194-203 and _start_analysis lines 161-163: the best point
\* comes back, progress 0.8
OptimizeReturn ==
    /\ pc = "pso_return"
    /\ optimum' = <<swarm.g[1], swarm.fg>>
    /\ progress_bar' = 800
    /\ pc' = "get_results"
    /\ UNCHANGED <<geometry, files, observed, output_textbox, error_reports, optimizer, swarm, last_call,
                   results, exception>>

\* line 166
GetResults ==
    /\ pc = "get_results"
    /\ results' = <<get_results(optimizer[1])>>
    /\ pc' = "set_results"
    /\ UNCHANGED <<geometry, files, observed, progress_bar, output_textbox, error_reports, optimizer,
                   swarm, last_call, optimum, exception>>

\* the two assignments left out
SetResultsOmitted ==
    /\ pc = "set_results"
    /\ pc' = "display"
    /\ UNCHANGED <<input_values, mosfet_database, diode_database, progress_bar,
                   output_textbox, error_reports, optimizer, swarm, last_call,
                   optimum, results, exception, coil, measured, detailed_output,
                   evaluated>>

\* lines 167-168
SetResults ==
    /\ pc = "set_results"
    /\ results' = <<[results[1] EXCEPT !.best_frequency = optimum[1],
                                       !.best_loss = optimum[2]]>>
    /\ pc' = "display"
    /\ UNCHANGED <<geometry, files, observed, progress_bar, output_textbox, error_reports, optimizer,
                   swarm, last_call, optimum, exception>>

\* lines 171-174: show the results, progress 1.0
DisplayResults ==
    /\ pc = "display"
    /\ output_textbox' = <<"Optimization Results", results[1]>>
    /\ progress_bar' = 1000
    /\ pc' = "done"
    /\ UNCHANGED <<geometry, files, observed, error_reports, optimizer, swarm, last_call, optimum,
                   results, exception>>

\* lines 176-178: the handler reports the exception in self.<error_textbox>;
\* an attribute the window never assigned raises AttributeError out of the
\* handler
HandleException ==
    /\ pc = "except"
    /\ IF error_textbox \in AppAttributes
       THEN /\ error_reports' = Append(error_reports, exception)
            /\ exception' = ""
            /\ pc' = "failed"
       ELSE /\ exception' = "AttributeError"
            /\ pc' = "crashed"
            /\ UNCHANGED error_reports
    /\ UNCHANGED <<geometry, files, observed, progress_bar, output_textbox, optimizer, swarm, last_call,
                   optimum, results>>

Next ==
    \/ StartAnalysis
    \/ LoadData
    \/ CreateEngine
    \/ Optimize
    \/ PsoInitialise
    \/ PsoIterate
    \/ PsoMaxIter
    \/ OptimizeReturn
    \/ GetResults
    \/ SetResults
    \/ DisplayResults
    \/ HandleException

Spec == Init /\ [][Next]_vars

\* the window's event loop runs the handler on to its end
FairSpec == Spec /\ WF_vars(Next)

(***************************************************************************)
(* Properties.  The scores below are computed from the calculators'        *)
(* total-loss methods and a set minimum, not from the loops of             *)
(* objective_function.                                                     *)
(***************************************************************************)
system_parameters == input_values.content.system_params

\* 0.5 * total loss + 0.5 * (price / 20) of one switch
SwitchScore(row, frequency) ==
    Fin(MOSFET_calculate_total_loss(row, system_parameters, frequency) \div 2
        + (row.price * 10000) \div 40)

\* 0.5 * total loss + 0.5 * (price / 20) of one rectifier
RectifierScore(row, frequency) ==
    FAdd(FShrink(Diode_calculate_total_loss(row, system_parameters, frequency), 2),
         Fin((row.price * 10000) \div 40))

SwitchScores(frequency) ==
    {SwitchScore(mosfet_database.content[k], frequency) :
        k \in 1..Len(mosfet_database.content)}

RectifierScores(frequency) ==
    {RectifierScore(diode_database.content[k], frequency) :
        k \in 1..Len(diode_database.content)}

\* the least element of a set of doubles
LeastOf(S) == CHOOSE m \in S : \A y \in S : ~FLess(y, m)

\* the coil link loss at one frequency
CoilLoss(frequency) ==
    calculate_loss(system_parameters, frequency,
                   calculate_coil_inductance(system_parameters.tx_coil),
                   calculate_coil_inductance(system_parameters.rx_coil),
                   calculate_coil_resistance(system_parameters.tx_coil,
                                             system_parameters.r1_unit),
                   calculate_coil_resistance(system_parameters.rx_coil,
                                             system_parameters.r2_unit))

NotAbove(a, b) == a = b \/ FLess(a, b)

\* C1: once an evaluation has happened, the stored best switch score and the
\* stored best rectifier score never increase from one step to the next, and
\* each changes only to the least score of its own class at the frequency
\* just evaluated.
C1_BestScoresNeverIncrease ==
    [][(optimizer # <<>> /\ optimizer' # <<>>) =>
          /\ NotAbove(optimizer'[1].best_mosfet_loss, optimizer[1].best_mosfet_loss)
          /\ NotAbove(optimizer'[1].best_diode_loss, optimizer[1].best_diode_loss)
          /\ (optimizer'[1].best_mosfet_loss # optimizer[1].best_mosfet_loss =>
                optimizer'[1].best_mosfet_loss = LeastOf(SwitchScores(last_call'[1])))
          /\ (optimizer'[1].best_diode_loss # optimizer[1].best_diode_loss =>
                optimizer'[1].best_diode_loss = LeastOf(RectifierScores(last_call'[1])))
      ]_vars

\* an evaluation whose least switch score was worse than the stored best has
\* returned, and the stored best is still the lower one
C1_Witness ==
    /\ optimizer # <<>>
    /\ last_call # <<>>
    /\ optimizer[1].evaluation_count >= 2
    /\ optimizer[1].best_mosfet_loss.c = "fin"
    /\ FLess(optimizer[1].best_mosfet_loss, LeastOf(SwitchScores(last_call[1])))

\* C2: the value objective_function returns for a frequency is the least
\* switch score plus the least rectifier score plus the coil loss, all at
\* that frequency (with one row per catalog, that row's score).
C2_ObjectiveIsSumOfMinima ==
    last_call # <<>> =>
        last_call[2] = FAdd(FAdd(LeastOf(SwitchScores(last_call[1])),
                                 LeastOf(RectifierScores(last_call[1]))),
                            CoilLoss(last_call[1]))

\* an evaluation returned a finite value for catalogs in which the least
\* score of each class is not the first row's
C2_Witness ==
    /\ last_call # <<>>
    /\ last_call[2].c = "fin"
    /\ Len(mosfet_database.content) >= 2
    /\ Len(diode_database.content) >= 2
    /\ LeastOf(SwitchScores(last_call[1]))
          # SwitchScore(mosfet_database.content[1], last_call[1])
    /\ LeastOf(RectifierScores(last_call[1]))
          # RectifierScore(diode_database.content[1], last_call[1])

catalog_empty ==
    Len(mosfet_database.content) = 0 \/ Len(diode_database.content) = 0

\* C3: with an empty switch or rectifier catalog, optimization is refused
\* with a ConfigurationError before any candidate frequency is evaluated:
\* no evaluation is counted and no other error arises.
C3_EmptyCatalogRefusedBeforeEvaluation ==
    catalog_empty =>
        /\ optimizer # <<>> => optimizer[1].evaluation_count = 0
        /\ exception \in {"", "ConfigurationError"}

\* C4: a run that has ended has reported exactly one of a complete result
\* and an explicit failure.
C4_ResultOrReportedFailure ==
    pc \in {"done", "failed", "crashed"} =>
        ((Len(output_textbox) = 2 /\ results # <<>>) # (error_reports # <<>>))

\* C5: every value given to the progress callback lies in [0, 1], and the
\* values never decrease over a run.
C5_ProgressBoundedAndNonDecreasing ==
    [][progress_bar' \in 0..1000 /\ progress_bar' >= progress_bar]_vars

\* a run finished after more evaluations than the cap of 0.7 allows for
C5_Witness ==
    /\ pc = "done"
    /\ progress_bar = 1000
    /\ optimizer[1].evaluation_count > 100
    /\ 300 + optimizer[1].evaluation_count * 4 > 800

\* a configuration the specification accepts: readable files, catalogs with
\* rows, a nonzero mean current and coupling divisor, lower below upper,
\* a positive swarm size and iteration count
valid_configuration ==
    /\ input_values.readable /\ mosfet_database.readable /\ diode_database.readable
    /\ ~catalog_empty
    /\ system_parameters.id_mean # 0
    /\ system_parameters.equivalent_resistance # 0
    /\ input_values.content.pso.lower < input_values.content.pso.upper
    /\ input_values.content.pso.swarm_size > 0
    /\ input_values.content.pso.max_iter > 0

\* C6: with a valid configuration, every frequency handed to
\* objective_function and the best frequency returned lie within the
\* configured lower and upper bounds.
C6_FrequenciesWithinConfiguredBounds ==
    valid_configuration =>
        /\ last_call # <<>> =>
              /\ input_values.content.pso.lower <= last_call[1]
              /\ last_call[1] <= input_values.content.pso.upper
        /\ optimum # <<>> =>
              /\ input_values.content.pso.lower <= optimum[1]
              /\ optimum[1] <= input_values.content.pso.upper

\* C7: a call of optimize() comes to an end, and the search stops only
\* because the iteration count is used up or because the best position moved
\* by no more than the minimum step, never because of the size of the change
\* in the objective value.
C7_TerminatesOnIterationsOrStep ==
    /\ [](swarm.stopped \in {"", "maxiter", "minstep"})
    /\ [](pc \in {"pso_return", "get_results"} =>
              swarm.stopped \in {"maxiter", "minstep"})
    /\ (pc = "optimize") ~> (pc \in {"get_results", "except"})

\* optimize() has returned after stopping on the minimum step
C7_Witness ==
    /\ pc = "get_results"
    /\ swarm.stopped = "minstep"
    /\ swarm.it <= swarm.maxiter

\* the fields of a result other than best_frequency and best_loss
SelectionOf(r) == [r EXCEPT !.best_frequency = 0, !.best_loss = Fin(0)]

\* C8 (as stated): the result get_results creates already carries the best
\* frequency and the best objective value the optimizer returned.
C8_ResultCompleteAtCreation ==
    results # <<>> =>
        /\ results[1].best_frequency = optimum[1]
        /\ results[1].best_loss = optimum[2]

\* C8 (amended): get_results creates the result with best_frequency and
\* best_loss at 0.0; the caller then assigns the optimizer's best frequency
\* and value, so that the result shown carries them; no other field of the
\* result changes after its creation.
C8_ResultCompletedByCaller ==
    /\ [](pc = "set_results" =>
              results[1].best_frequency = 0 /\ results[1].best_loss = Fin(0))
    /\ [](pc \in {"display", "done"} =>
              results[1].best_frequency = optimum[1] /\ results[1].best_loss = optimum[2])
    /\ [][results # <<>> =>
              results' # <<>> /\ SelectionOf(results'[1]) = SelectionOf(results[1])]_vars

\* a result on display carries a best frequency its creation did not give it
C8_Witness ==
    /\ pc = "done"
    /\ results # <<>>
    /\ results[1].best_frequency # 0
    /\ results[1].best_frequency = optimum[1]
    /\ results[1].best_loss.c = "fin"

\* C9: the switch and rectifier values of the result are total losses of the
\* selected devices at an evaluated frequency, and the efficiency is
\* (P - coil loss) / (P + switch loss + rectifier loss) * 100 on them.
C9_ReportedValuesAreTotalLosses ==
    pc = "done" =>
        LET r == results[1]
            e == optimizer[1]
            P == Fin(system_parameters.vds * system_parameters.i_coil * 1000000)
        IN  /\ \E f \in SamplePositions(swarm.lb, swarm.ub) :
                  r.mosfet_loss =
                      Fin(MOSFET_calculate_total_loss(e.mosfet_df[e.best_mosfet_idx + 1],
                                                      system_parameters, f))
            /\ \E f \in SamplePositions(swarm.lb, swarm.ub) :
                  r.diode_loss =
                      Diode_calculate_total_loss(e.diode_df[e.best_diode_idx + 1],
                                                 system_parameters, f)
            /\ r.system_efficiency =
                  FDivide(FAdd(P, FNeg(r.coil_loss)),
                          FAdd(FAdd(P, r.mosfet_loss), r.diode_loss), 100)

\* C10: no NaN and no infinity is returned by objective_function or stored
\* as a loss; a zero mean current or a zero coupling divisor raises instead.
C10_NoNonFiniteValue ==
    /\ last_call # <<>> => last_call[2].c = "fin"
    /\ (optimizer # <<>> /\ optimizer[1].evaluation_count > 0 /\ last_call # <<>>) =>
          /\ optimizer[1].best_coil_loss.c = "fin"
          /\ optimizer[1].best_diode_loss.c = "fin"

\* an optimizer configuration the specification refuses
invalid_optimizer_configuration ==
    /\ input_values.readable /\ mosfet_database.readable /\ diode_database.readable
    /\ \/ input_values.content.pso.lower >= input_values.content.pso.upper
       \/ input_values.content.pso.swarm_size <= 0
       \/ input_values.content.pso.max_iter <= 0

\* C11: with lower bound >= upper bound, or a non-positive swarm size or
\* iteration count, the run is refused with a ConfigurationError before the
\* objective function is evaluated: no call is counted, no value returned,
\* no other error raised and no result shown.
C11_InvalidConfigurationRefused ==
    invalid_optimizer_configuration =>
        /\ last_call = <<>>
        /\ optimizer # <<>> => optimizer[1].evaluation_count = 0
        /\ exception \in {"", "ConfigurationError"}
        /\ pc # "done"

(***************************************************************************)
(* CoilParameters on its own: a coil object is built, its properties are   *)
(* read, the coil is rebuilt with another number of turns (the other       *)
(* fields kept) and its properties are read again.                         *)
(***************************************************************************)
MaxTurns == 12

Coils ==
    {c \in [turns : 1..MaxTurns, wire_diameter : {1, 2}, wire_spacing : {1},
            outer_diameter : {100, 150}] : inner_diameter(c) > 0}

CoilInit ==
    /\ coil \in Coils
    /\ measured = <<>>
    /\ input_values = Workbook(Parameters, SettingsShort, <<MosfetFast>>,
                               <<DiodeLarge>>).input_values
    /\ mosfet_database = File(TRUE, <<MosfetFast>>)
    /\ diode_database = File(TRUE, <<DiodeLarge>>)
    /\ pc = "idle"
    /\ progress_bar = 0
    /\ output_textbox = <<>>
    /\ error_reports = <<>>
    /\ optimizer = <<>>
    /\ swarm = NoSwarm
    /\ last_call = <<>>
    /\ optimum = <<>>
    /\ results = <<>>
    /\ exception = ""
    /\ detailed_output = <<>>
    /\ evaluated = {}

run == <<files, observed, pc, progress_bar, output_textbox, error_reports, optimizer, swarm,
         last_call, optimum, results, exception>>

\* coil.inner_diameter and coil.wire_length are read
MeasureCoil ==
    /\ Len(measured) < 2
    /\ \A k \in 1..Len(measured) : measured[k].turns # coil.turns
    /\ measured' = Append(measured, [turns          |-> coil.turns,
                                     inner_diameter |-> inner_diameter(coil),
                                     wire_length    |-> wire_length(coil)])
    /\ UNCHANGED <<coil, run>>

\* CoilParameters(turns=t, ...) with the other fields as before
RewindCoil ==
    /\ Len(measured) = 1
    /\ measured[1].turns = coil.turns
    /\ \E t \in 1..MaxTurns :
          /\ t # coil.turns
          /\ [coil EXCEPT !.turns = t] \in Coils
          /\ coil' = [coil EXCEPT !.turns = t]
    /\ UNCHANGED <<measured, run>>

CoilNext ==
    \/ MeasureCoil
    \/ RewindCoil

CoilSpec == CoilInit /\ [][CoilNext]_vars

\* C12 (as stated): of two coils that differ in turns only, the one with
\* fewer turns has the strictly larger inner diameter, and the wire length is
\* proportional to the turns: twice the turns give twice the wire length.
C12_InnerDiameterAndProportionalLength ==
    Len(measured) = 2 =>
        /\ (measured[1].turns < measured[2].turns =>
                measured[1].inner_diameter > measured[2].inner_diameter)
        /\ (measured[2].turns < measured[1].turns =>
                measured[2].inner_diameter > measured[1].inner_diameter)
        /\ (measured[2].turns = 2 * measured[1].turns =>
                measured[2].wire_length = 2 * measured[1].wire_length)

\* C12 (amended): of two coils that differ in turns only, the one with
\* fewer turns has the strictly larger inner diameter; the wire length is
\* pi * turns * (outer diameter - turns * (wire diameter + spacing)), the
\* turns times the mean circumference, so that twice the turns give less
\* than twice the wire length.
C12_InnerDiameterAndMeanTurnLength ==
    /\ \A k \in 1..Len(measured) :
          measured[k].wire_length =
              (355 * measured[k].turns
                   * (coil.outer_diameter
                      - measured[k].turns * (coil.wire_diameter + coil.wire_spacing)))
              \div 113
    /\ Len(measured) = 2 =>
          /\ (measured[1].turns < measured[2].turns =>
                  measured[1].inner_diameter > measured[2].inner_diameter)
          /\ (measured[2].turns < measured[1].turns =>
                  measured[2].inner_diameter > measured[1].inner_diameter)
          /\ (measured[2].turns = 2 * measured[1].turns =>
                  measured[2].wire_length < 2 * measured[1].wire_length)

\* a coil and the coil of twice its turns have both been read
C12_Witness ==
    /\ Len(measured) = 2
    /\ measured[2].turns = 2 * measured[1].turns
    /\ measured[2].inner_diameter < measured[1].inner_diameter

\* the value a newly built engine returns for a frequency
FirstCallValue(frequency) ==
    objective_function(EngineInit(system_parameters, mosfet_database.content,
                                  diode_database.content), frequency).total_loss

\* C13: the value objective_function returns for a frequency is the value a
\* fresh engine returns for it, whatever was evaluated before; with a valid
\* configuration the best value optimize() returns is that value at the
\* best frequency, so equal inputs and equal random draws give equal results.
C13_ObjectiveDependsOnFrequencyOnly ==
    /\ last_call # <<>> => last_call[2] = FirstCallValue(last_call[1])
    /\ (valid_configuration /\ optimum # <<>>) => optimum[2] = FirstCallValue(optimum[1])

\* a third or later call returned at a frequency whose least scores are both
\* worse than the stored best scores
C13_Witness ==
    /\ last_call # <<>>
    /\ last_call[2].c = "fin"
    /\ optimizer[1].evaluation_count >= 3
    /\ FLess(optimizer[1].best_mosfet_loss, LeastOf(SwitchScores(last_call[1])))
    /\ FLess(optimizer[1].best_diode_loss, LeastOf(RectifierScores(last_call[1])))

\* a step in which a call of objective_function returned
call_returned ==
    /\ optimizer # <<>>
    /\ optimizer' # <<>>
    /\ optimizer'[1].evaluation_count = optimizer[1].evaluation_count + 1
    /\ exception' = ""

\* the first 0-based catalog position whose score at the frequency is the
\* least score of the catalog
FirstSwitchPosition(frequency) ==
    CHOOSE i \in 0..(Len(mosfet_database.content) - 1) :
        /\ SwitchScore(mosfet_database.content[i + 1], frequency)
              = LeastOf(SwitchScores(frequency))
        /\ \A j \in 1..i : SwitchScore(mosfet_database.content[j], frequency)
                               # LeastOf(SwitchScores(frequency))

FirstRectifierPosition(frequency) ==
    CHOOSE i \in 0..(Len(diode_database.content) - 1) :
        /\ RectifierScore(diode_database.content[i + 1], frequency)
              = LeastOf(RectifierScores(frequency))
        /\ \A j \in 1..i : RectifierScore(diode_database.content[j], frequency)
                               # LeastOf(RectifierScores(frequency))

\* C14: a call that returns overwrites the stored switch score and index
\* only when its least switch score is strictly below the stored score, and
\* then records the first catalog position attaining it; otherwise score and
\* index stay as they were.  The same holds for the rectifier on its own.
C14_StrictUpdateFirstPosition ==
    [][call_returned =>
          /\ IF FLess(LeastOf(SwitchScores(last_call'[1])), optimizer[1].best_mosfet_loss)
             THEN /\ optimizer'[1].best_mosfet_loss = LeastOf(SwitchScores(last_call'[1]))
                  /\ optimizer'[1].best_mosfet_idx = FirstSwitchPosition(last_call'[1])
             ELSE /\ optimizer'[1].best_mosfet_loss = optimizer[1].best_mosfet_loss
                  /\ optimizer'[1].best_mosfet_idx = optimizer[1].best_mosfet_idx
          /\ IF FLess(LeastOf(RectifierScores(last_call'[1])), optimizer[1].best_diode_loss)
             THEN /\ optimizer'[1].best_diode_loss = LeastOf(RectifierScores(last_call'[1]))
                  /\ optimizer'[1].best_diode_idx = FirstRectifierPosition(last_call'[1])
             ELSE /\ optimizer'[1].best_diode_loss = optimizer[1].best_diode_loss
                  /\ optimizer'[1].best_diode_idx = optimizer[1].best_diode_idx
      ]_vars

\* in a catalog whose second and third rows are the same device, the stored
\* switch is the second row, after a later call whose least score equalled
\* the stored one
C14_Witness ==
    /\ Len(mosfet_database.content) = 3
    /\ mosfet_database.content[2] = mosfet_database.content[3]
    /\ last_call # <<>>
    /\ optimizer[1].evaluation_count >= 2
    /\ optimizer[1].best_mosfet_idx = 1
    /\ optimizer[1].best_mosfet_loss = LeastOf(SwitchScores(last_call[1]))
    /\ Len(swarm.fp) >= 2
    /\ swarm.fp[1] = swarm.fp[2]

\* C15: after every call that returns, the stored coil loss is the coil loss
\* at the frequency of the most recent returned call, whether above or below
\* what was stored; the coil loss in the record built by get_results is
\* therefore that of the last evaluated frequency.
C15_CoilLossOfLastCall ==
    /\ (optimizer # <<>> /\ last_call # <<>>)
          => optimizer[1].best_coil_loss = CoilLoss(last_call[1])
    /\ results # <<>> => results[1].coil_loss = CoilLoss(last_call[1])

\* a finished run whose last evaluated frequency is not the best frequency
\* and whose reported coil loss is above that of the best frequency
C15_Witness ==
    /\ pc = "done"
    /\ last_call[1] # optimum[1]
    /\ results[1].coil_loss = CoilLoss(last_call[1])
    /\ FLess(CoilLoss(optimum[1]), results[1].coil_loss)

\* a step in which objective_function was called, whether it returned or raised
call_made ==
    /\ optimizer # <<>>
    /\ optimizer' # <<>>
    /\ optimizer'[1].evaluation_count = optimizer[1].evaluation_count + 1

\* the callbacks named by the order: all but the two section titles
ListedCallbacks(out) ==
    SelectSeq(out, LAMBDA e : e.kind \notin {"mosfet_analysis", "diode_analysis"})

PerRowBlocks(out) == SelectSeq(out, LAMBDA e : e.kind \in {"mosfet", "diode"})

\* header, then the switch rows and the rectifier rows of the catalogs in
\* catalog order, then the coil loss
OrderUpToCoil(evaluation) ==
    <<event("header", evaluation, 0)>>
    \o [k \in 1..Len(mosfet_database.content) |-> event("mosfet", evaluation, k)]
    \o [k \in 1..Len(diode_database.content) |-> event("diode", evaluation, k)]
    \o <<event("coil", evaluation, 0)>>

IsPrefix(s, t) == Len(s) <= Len(t) /\ s = SubSeq(t, 1, Len(s))

\* C16: the callbacks of one objective call come in the order header, one
\* block per switch row in catalog order, one block per rectifier row in
\* catalog order, coil loss, summary, new-best notices, and last the progress
\* callback; they all belong to that one evaluation; a call that returns
\* emits exactly (switch rows + rectifier rows) per-row blocks, and a call
\* that raises has emitted a prefix of that order.
C16_CallbackOrder ==
    [][call_made =>
          /\ \A i \in 1..Len(detailed_output') :
                detailed_output'[i].evaluation = optimizer'[1].evaluation_count
          /\ IF call_returned
             THEN /\ ListedCallbacks(detailed_output')
                       = OrderUpToCoil(optimizer'[1].evaluation_count)
                         \o <<event("summary", optimizer'[1].evaluation_count, 0)>>
                         \o (IF FLess(LeastOf(SwitchScores(last_call'[1])),
                                      optimizer[1].best_mosfet_loss)
                             THEN <<event("new_best_mosfet", optimizer'[1].evaluation_count,
                                          optimizer'[1].best_mosfet_idx)>>
                             ELSE <<>>)
                         \o (IF FLess(LeastOf(RectifierScores(last_call'[1])),
                                      optimizer[1].best_diode_loss)
                             THEN <<event("new_best_diode", optimizer'[1].evaluation_count,
                                          optimizer'[1].best_diode_idx)>>
                             ELSE <<>>)
                         \o <<event("progress", optimizer'[1].evaluation_count,
                                    progress_bar')>>
                  /\ Len(PerRowBlocks(detailed_output'))
                       = Len(mosfet_database.content) + Len(diode_database.content)
             ELSE IsPrefix(ListedCallbacks(detailed_output'),
                           OrderUpToCoil(optimizer'[1].evaluation_count))
      ]_vars

\* a second or later call over two switch rows and two rectifier rows that
\* found a new best rectifier and ended with the progress callback
C16_Witness ==
    /\ optimizer # <<>>
    /\ optimizer[1].evaluation_count >= 2
    /\ Len(mosfet_database.content) = 2
    /\ Len(diode_database.content) = 2
    /\ Len(PerRowBlocks(detailed_output)) = 4
    /\ \E i \in 1..Len(detailed_output) : detailed_output[i].kind = "new_best_diode"
    /\ detailed_output[Len(detailed_output)].kind = "progress"

\* C17: when a run with a valid configuration has completed, the reported
\* switch and rectifier each attain the least blended score of their catalog
\* at the best frequency optimize() returned, and the best value returned is
\* the sum of their two scores and the coil loss at that frequency.
C17_DevicesMatchBestFrequency ==
    (pc = "done" /\ valid_configuration) =>
        /\ SwitchScore(mosfet_database.content[optimizer[1].best_mosfet_idx + 1],
                       optimum[1])
             = LeastOf(SwitchScores(optimum[1]))
        /\ RectifierScore(diode_database.content[optimizer[1].best_diode_idx + 1],
                          optimum[1])
             = LeastOf(RectifierScores(optimum[1]))
        /\ optimum[2]
             = FAdd(FAdd(SwitchScore(mosfet_database.content[optimizer[1].best_mosfet_idx + 1],
                                     optimum[1]),
                         RectifierScore(diode_database.content[optimizer[1].best_diode_idx + 1],
                                        optimum[1])),
                    CoilLoss(optimum[1]))

\* every switch score and every rectifier score at the frequencies evaluated
AllSwitchScores == UNION {SwitchScores(f) : f \in evaluated}

AllRectifierScores == UNION {RectifierScores(f) : f \in evaluated}

\* C18: before the first call the stored best scores are infinite and both
\* indices are 0; once one or more calls have returned, the stored best
\* switch score is the least score over all switch rows and all frequencies
\* evaluated so far, the stored index is a position of the catalog, and the
\* row there has the stored score at one of the evaluated frequencies; the
\* same for the rectifier.
C18_BestIsLeastOverEvaluated ==
    optimizer # <<>> =>
        /\ optimizer[1].evaluation_count = 0 =>
              /\ optimizer[1].best_mosfet_loss = Inf
              /\ optimizer[1].best_diode_loss = Inf
              /\ optimizer[1].best_mosfet_idx = 0
              /\ optimizer[1].best_diode_idx = 0
        /\ evaluated # {} =>
              /\ optimizer[1].best_mosfet_loss = LeastOf(AllSwitchScores)
              /\ optimizer[1].best_mosfet_idx \in 0..(Len(mosfet_database.content) - 1)
              /\ \E f \in evaluated :
                    SwitchScore(mosfet_database.content[optimizer[1].best_mosfet_idx + 1], f)
                      = optimizer[1].best_mosfet_loss
              /\ optimizer[1].best_diode_loss = LeastOf(AllRectifierScores)
              /\ optimizer[1].best_diode_idx \in 0..(Len(diode_database.content) - 1)
              /\ \E f \in evaluated :
                    RectifierScore(diode_database.content[optimizer[1].best_diode_idx + 1], f)
                      = optimizer[1].best_diode_loss

\* three frequencies evaluated, the stored switch being the second row and
\* the last call not the one that set the stored scores
C18_Witness ==
    /\ Cardinality(evaluated) >= 3
    /\ optimizer[1].best_mosfet_idx = 1
    /\ FLess(optimizer[1].best_mosfet_loss, LeastOf(SwitchScores(last_call[1])))
    /\ FLess(optimizer[1].best_diode_loss, LeastOf(RectifierScores(last_call[1])))

====
